---- MODULE Spec2Model ----
(***************************************************************************)
(* A model of EasContextProvider (src/src/eas/components/                  *)
(* EasContextProvider.tsx): the React provider that loads a schema record, *)
(* derives the field list and the schema encoder from it, and submits a    *)
(* batch of attestations either directly (createAttestations) or as a Safe *)
(* multisig proposal (createSafeAttestationsTransaction).                  *)
(*                                                                         *)
(* Conventions.                                                            *)
(*  - An optional value (a field of the React state that may be undefined) *)
(*    is a sequence: <<>> is undefined, <<v>> is the value v.              *)
(*  - A string the code splits (the raw schema string) is a sequence of    *)
(*    tokens: the separators "," and " " and whole words.                  *)
(*  - setState((prev) => ...) applies to the latest state; the `state` a   *)
(*    handler reads is the one of the render that created the handler, so  *)
(*    every invocation carries the values it captured when invoked.        *)
(*  - The useEffect callbacks run with the commit that changes their        *)
(*    dependencies (React flushes passive effects before the next event),  *)
(*    so they are part of the action that changes the dependency.          *)
(*  - Every await is a suspension point: one action per continuation.      *)
(***************************************************************************)
EXTENDS Integers, Sequences, FiniteSets, TLC

VARIABLES
  state,          \* useState<EasContext>: the provider's local state (line 56)
  schemaUid,      \* the schemaUid prop of the current render (line 40)
  includeRefUid,  \* the global store's includeRefUid (line 53)
  csv,            \* the global store's csv, as csv-parse returns it (lines 52, 135-141)
  env,            \* what the hooks of lines 44-49 return: which collaborators exist
  fetches,        \* schemaRegistry.getSchema calls in flight (line 76), by uid
  inv,            \* the invocations of the two submission handlers, in order
  nEvents         \* how many events from outside there have been

vars == <<state, schemaUid, includeRefUid, csv, env, fetches, inv, nEvents>>

\* ---------------------------------------------------------------- bounds

\* The events from outside in one behaviour: changes of the schemaUid prop or
\* of includeRefUid, invocations of the two handlers, and resets.
MaxEvents == 2

\* ------------------------------------------------------------- optionals

None == <<>>
Some(x) == <<x>>
IsSome(o) == o # <<>>
Get(o) == o[1]

\* ------------------------------------------------ the external collaborators

\* The schema registry: what getSchema({uid}) answers for each identifier.
\* uA is the "Verified Builder Attestation" schema of the project summary, uB
\* a non-revocable schema, uC a schema string with an unknown type name.
Uids == {"uA", "uB", "uC"}

Registry(uid) ==
  CASE uid = "uA" ->
         [uid |-> "uA", revocable |-> TRUE,
          schema |-> <<"bool", " ", "isBuilder", ",", " ", "string", " ", "context">>]
    [] uid = "uB" ->
         [uid |-> "uB", revocable |-> FALSE,
          schema |-> <<"bool", " ", "isBuilder", ",", " ", "string", " ", "context">>]
    [] OTHER ->
         [uid |-> "uC", revocable |-> TRUE,
          schema |-> <<"bogus", " ", "x", ",", "string", " ", "context">>]

\* The type names isSchemaFieldTypeName accepts.
SchemaFieldTypeNames == {"address", "bool", "bytes32", "string", "uint256"}

\* ------------------------------------------------------- string helpers

\* String.prototype.split(sep): the pieces between the separators; the empty
\* string splits into one empty piece.
RECURSIVE SplitOn(_, _)
SplitOn(s, sep) ==
  IF s = <<>> THEN << <<>> >>
  ELSE LET rest == SplitOn(Tail(s), sep)
       IN IF Head(s) = sep
            THEN << <<>> >> \o rest
            ELSE << <<Head(s)>> \o Head(rest) >> \o Tail(rest)

RECURSIVE TrimLeft(_)
TrimLeft(s) ==
  IF s # <<>> /\ Head(s) = " " THEN TrimLeft(Tail(s)) ELSE s

RECURSIVE TrimRight(_)
TrimRight(s) ==
  IF s # <<>> /\ s[Len(s)] = " " THEN TrimRight(SubSeq(s, 1, Len(s) - 1)) ELSE s

\* String.prototype.trim()
Trim(s) == TrimRight(TrimLeft(s))

\* A piece of a split as one word ("" for the empty piece).
Word(w) == IF w = <<>> THEN "" ELSE w[1]

\* const [type, name] = field.trim().split(" ")
ParseField(field) ==
  LET parts == SplitOn(Trim(field), " ")
  IN [type |-> Word(parts[1]),
      name |-> IF Len(parts) >= 2 THEN Word(parts[2]) ELSE ""]

isSchemaFieldTypeName(type) == type \in SchemaFieldTypeNames

\* new SchemaEncoder(schema) throws on a schema string it cannot parse into
\* ABI parameters: here, a field whose type is no ABI type or that has no name.
SchemaEncoderThrows(schema) ==
  \E k \in 1..Len(SplitOn(schema, ",")) :
    LET f == ParseField(SplitOn(schema, ",")[k])
    IN f.type \notin SchemaFieldTypeNames \/ f.name = ""

\* The encoder, bound to the raw schema string it was constructed from.
SchemaEncoder(schema) == [schema |-> schema]

\* ------------------------------------------------------- the React state

\* useState<EasContext>({ schemaUid }): every other field starts undefined.
InitialState(uid) ==
  [schemaUid |-> uid,
   schemaRecord |-> None,
   schemaRecordIsLoading |-> FALSE,
   schemaRecordError |-> None,
   schemaError |-> None,
   schema |-> None,
   schemaEncoder |-> None,
   schemaEncoderError |-> None,
   safeTransactionState |-> None,
   transaction |-> None,
   transactionError |-> None,
   transactionStatus |-> "undefined",
   attestationUids |-> None]

\* state.schemaRecord?.schema, the dependency of the initSchemaEncoder effect.
SchemaString(st) ==
  IF IsSome(st.schemaRecord) THEN Some(Get(st.schemaRecord).schema) ELSE None

\* loadSchemaRecord does nothing without easConfig, rpcProvider and schemaUid.
loadSchemaRecordGuard == env.easConfig

\* The first setState of loadSchemaRecord, before the fetch.
loadSchemaRecordStart(st) ==
  [st EXCEPT !.schemaError = None,
             !.schemaRecordIsLoading = TRUE,
             !.schemaRecordError = None]

\* The setState after getSchema resolved with a record.
loadSchemaRecordResolved(st, rec) ==
  [st EXCEPT !.schemaRecord = Some(rec),
             !.schemaRecordIsLoading = FALSE]

\* The setState of the catch block.
loadSchemaRecordRejected(st, err) ==
  [st EXCEPT !.schemaRecord = None,
             !.schemaRecordIsLoading = FALSE,
             !.schemaRecordError = Some(err)]

\* The fields of the schema string, each parsed into (type, name).
ParsedFields(schema) ==
  LET fields == SplitOn(schema, ",")
  IN [k \in 1..Len(fields) |-> ParseField(fields[k])]

ValidField(f) == isSchemaFieldTypeName(f.type)
InvalidField(f) == ~isSchemaFieldTypeName(f.type)

RefUidField == [name |-> "refUID", type |-> "bytes32"]
RecipientField == [name |-> "recipient", type |-> "address"]

\* Mutant: the refUID field is pushed after the recipient field.
SchemaFields_RefUidLast(schema, refUid) ==
  SelectSeq(ParsedFields(schema), ValidField)
    \o <<RecipientField>>
    \o (IF refUid THEN <<RefUidField>> ELSE <<>>)

\* The field list createSchemaFromRecord builds from a schema string.
SchemaFields(schema, refUid) ==
  SelectSeq(ParsedFields(schema), ValidField)
    \o (IF refUid THEN <<RefUidField>> ELSE <<>>)
    \o <<RecipientField>>

\* The effect of [state.schemaRecord, includeRefUid].
createSchemaFromRecord(st, refUid) ==
  IF ~IsSome(st.schemaRecord) THEN st
  ELSE LET schema == Get(st.schemaRecord).schema
           invalid == SelectSeq(ParsedFields(schema), InvalidField)
       IN [st EXCEPT
             !.schemaError =
               IF invalid # <<>>
                 THEN Some([name |-> "InvalidTypeName",
                            type |-> invalid[Len(invalid)].type])
                 ELSE @,
             !.schema = Some(SchemaFields(schema, refUid))]

\* The effect of [state.schemaRecord?.schema].
initSchemaEncoder(st) ==
  IF ~IsSome(st.schemaRecord) \/ Get(st.schemaRecord).schema = <<>> THEN st
  ELSE LET schema == Get(st.schemaRecord).schema
       IN IF SchemaEncoderThrows(schema)
            THEN [st EXCEPT !.schemaEncoderError =
                              Some([name |-> "SchemaEncoderError", schema |-> schema])]
            ELSE [st EXCEPT !.schemaEncoder = Some(SchemaEncoder(schema))]

\* The effects a commit triggers: createSchemaFromRecord when the schema
\* record (a new object) or includeRefUid changed, initSchemaEncoder when the
\* schema string changed.
RunEffects(old, new, recordChanged, refUid) ==
  LET s1 == IF recordChanged THEN createSchemaFromRecord(new, refUid) ELSE new
  IN IF SchemaString(new) # SchemaString(old) THEN initSchemaEncoder(s1) ELSE s1

\* ------------------------------------------------------------ the csv

\* The csv inputs, as parseCsv returns them: rows of trimmed cells.
Csvs ==
  { << <<"true", "hello", "0xA">>, <<"true", "hello">>, <<"false", "hi", "0xref", "nick.eth">> >>,
    << <<"true", "hello", "0xA">>, <<"maybe", "hello", "0xA">> >>,
    << <<"true", "hello", "ghost.eth">>, <<"true", "hello", "0xA">> >> }

\* What the hooks return: everything connected, or one collaborator missing.
Envs ==
  { [rpcSigner |-> TRUE, safe |-> TRUE, easConfig |-> TRUE],
    [rpcSigner |-> FALSE, safe |-> TRUE, easConfig |-> TRUE],
    [rpcSigner |-> TRUE, safe |-> FALSE, easConfig |-> TRUE],
    [rpcSigner |-> TRUE, safe |-> TRUE, easConfig |-> FALSE] }

\* ----------------------------------------------------------------- Init

\* The state after the first render and its effects: loadSchemaRecord has
\* started the fetch of the schemaUid prop (when its guard holds); the two
\* other effects returned early, there being no schema record yet.
Init ==
  /\ schemaUid \in Uids
  /\ includeRefUid \in BOOLEAN
  /\ csv \in Csvs
  /\ env \in Envs
  /\ state = IF env.easConfig
               THEN loadSchemaRecordStart(InitialState(schemaUid))
               ELSE InitialState(schemaUid)
  /\ fetches = IF env.easConfig THEN <<schemaUid>> ELSE <<>>
  /\ inv = <<>>
  /\ nEvents = 0

\* ----------------------------------------------------- schema actions

RemoveAt(s, k) == SubSeq(s, 1, k - 1) \o SubSeq(s, k + 1, Len(s))

\* The parent re-renders the provider with another schemaUid: the
\* loadSchemaRecord effect runs again (line 367).
ChangeSchemaUid(u) ==
  /\ nEvents < MaxEvents
  /\ u # schemaUid
  /\ schemaUid' = u
  /\ nEvents' = nEvents + 1
  /\ IF loadSchemaRecordGuard
       THEN /\ state' = loadSchemaRecordStart(state)
            /\ fetches' = Append(fetches, u)
       ELSE UNCHANGED <<state, fetches>>
  /\ UNCHANGED <<includeRefUid, csv, env, inv>>

\* The store's includeRefUid flips: createSchemaFromRecord runs again (line 368).
ToggleIncludeRefUid ==
  /\ nEvents < MaxEvents
  /\ includeRefUid' = ~includeRefUid
  /\ nEvents' = nEvents + 1
  /\ state' = createSchemaFromRecord(state, includeRefUid')
  /\ UNCHANGED <<schemaUid, csv, env, fetches, inv>>

\* getSchema resolves for the k-th fetch in flight (lines 76-83), and the
\* effects of the new schema record run.
FetchResolved(k) ==
  /\ k \in 1..Len(fetches)
  /\ fetches' = RemoveAt(fetches, k)
  /\ state' = RunEffects(state,
                         loadSchemaRecordResolved(state, Registry(fetches[k])),
                         TRUE, includeRefUid)
  /\ UNCHANGED <<schemaUid, includeRefUid, csv, env, inv, nEvents>>

\* getSchema rejects for the k-th fetch in flight (lines 84-92).
FetchRejected(k) ==
  /\ k \in 1..Len(fetches)
  /\ fetches' = RemoveAt(fetches, k)
  /\ state' = RunEffects(state,
                         loadSchemaRecordRejected(state,
                           [name |-> "SchemaFetchError", uid |-> fetches[k]]),
                         IsSome(state.schemaRecord), includeRefUid)
  /\ UNCHANGED <<schemaUid, includeRefUid, csv, env, inv, nEvents>>

SchemaNext ==
  \/ \E u \in Uids : ChangeSchemaUid(u)
  \/ ToggleIncludeRefUid
  \/ \E k \in 1..(MaxEvents + 1) : FetchResolved(k)
  \/ \E k \in 1..(MaxEvents + 1) : FetchRejected(k)

\* ------------------------------------------------------ row encoding

\* Whether a cell encodes as a value of the ABI type.
ValidFor(type, cell) ==
  CASE type = "bool" -> cell \in {"true", "false"}
    [] type = "uint256" -> cell \in {"42"}
    [] type = "bytes32" -> cell \in {"0xref"}
    [] type = "address" -> cell \in {"0xA", "0xB"}
    [] OTHER -> TRUE

\* Whether the field list ends in the refUID and recipient fields.
HasRefUidField(schema) ==
  Len(schema) >= 2 /\ schema[Len(schema) - 1] = RefUidField

\* The number of data fields: the field list without its trailing fields.
DataFieldCount(schema) ==
  Len(schema) - (IF HasRefUidField(schema) THEN 2 ELSE 1)

\* A row is included when it has one cell per field and its recipient cell
\* is not empty.
shouldIncludeRow(row, schema) ==
  /\ Len(row) = Len(schema)
  /\ row[Len(row)] # ""

\* The (name, type, value) items encodeRow hands to the encoder.
RowItems(row, schema) ==
  [k \in 1..DataFieldCount(schema) |->
     [name |-> schema[k].name, type |-> schema[k].type, value |-> row[k]]]

\* schemaEncoder.encodeData throws when the items are not those of the
\* encoder's schema, or when a value does not encode as its type.
EncodeRowThrows(row, schema, encoder) ==
  LET items == RowItems(row, schema)
      own == ParsedFields(encoder.schema)
  IN \/ Len(items) # Len(own)
     \/ \E k \in 1..Len(items) :
          \/ items[k].type # own[k].type
          \/ items[k].name # own[k].name
          \/ ~ValidFor(items[k].type, items[k].value)

\* The binary payload: the encoded items, in order.
encodeRow(row, schema, encoder) == [encoded |-> RowItems(row, schema)]

\* processRecipient rejects for a name that resolves to no address.
ProcessRecipientThrows(cell) == cell \notin {"0xA", "0xB", "nick.eth"}

\* The canonical address of a literal address or a registered name.
processRecipient(cell) == IF cell = "nick.eth" THEN "0xB" ELSE cell

ZeroUid == "0x0"

\* The AttestationRequestData of one row of the fail-soft batch builder.
RowRequestData(row, schema, encoder, revocable) ==
  [recipient |-> processRecipient(row[Len(row)]),
   expirationTime |-> 0,
   revocable |-> revocable,
   refUID |-> IF HasRefUidField(schema) THEN row[Len(row) - 1] ELSE ZeroUid,
   data |-> encodeRow(row, schema, encoder),
   value |-> 0]

\* A row the fail-soft batch builder keeps: well-formed, encodable, resolvable.
RowKept(row, schema, encoder) ==
  /\ shouldIncludeRow(row, schema)
  /\ ~EncodeRowThrows(row, schema, encoder)
  /\ ~ProcessRecipientThrows(row[Len(row)])

RECURSIVE BatchData(_, _, _, _)
BatchData(rows, schema, encoder, revocable) ==
  IF rows = <<>> THEN <<>>
  ELSE (IF RowKept(Head(rows), schema, encoder)
          THEN <<RowRequestData(Head(rows), schema, encoder, revocable)>>
          ELSE <<>>)
       \o BatchData(Tail(rows), schema, encoder, revocable)

\* createMultiAttestRequest(csv, schemaUid, schema, schemaEncoder, revocable, publicClient)
createMultiAttestRequest(rows, uid, schema, encoder, revocable) ==
  [schema |-> uid, data |-> BatchData(rows, schema, encoder, revocable)]

\* ------------------------------------------------------- invocations

\* One invocation of a submission handler: the values of the render it was
\* created in (state.schema, state.schemaEncoder, state.schemaRecord,
\* state.schemaUid, the schemaUid prop, includeRefUid), its position (pc: the
\* call it awaits, or "done"), its locals, the external calls it has made,
\* the analytics event it emitted and the error it threw.
NewCall(mode) ==
  [mode |-> mode,
   pc |-> "done",
   schema |-> state.schema,
   schemaEncoder |-> state.schemaEncoder,
   schemaRecord |-> state.schemaRecord,
   stateSchemaUid |-> state.schemaUid,
   propSchemaUid |-> schemaUid,
   includeRefUid |-> includeRefUid,
   row |-> 0,
   encodedData |-> None,
   requestData |-> <<>>,
   request |-> None,
   txHash |-> None,
   ext |-> <<>>,
   event |-> None,
   threw |-> ""]

Calls == DOMAIN inv
InFlight(i) == inv[i].pc # "done"
Idle == \A i \in Calls : ~InFlight(i)

\* The value of safeTransactionState in each status.
SafeState(status, txHash, signature, error) ==
  [status |-> status, txHash |-> txHash, signature |-> signature, error |-> error]

\* Mutant: the check forgets the multisig context (safeAddress, safe, safeApiKit).
safePreconditionsMet_NoSafeCheck(st) ==
  /\ env.rpcSigner
  /\ IsSome(st.schemaEncoder)
  /\ IsSome(st.schema)
  /\ env.easConfig
  /\ IsSome(st.schemaRecord) /\ Get(st.schemaRecord).revocable

\* The precondition check of createSafeAttestationsTransaction (lines 145-158).
safePreconditionsMet(st) ==
  /\ env.rpcSigner
  /\ env.safe
  /\ IsSome(st.schemaEncoder)
  /\ IsSome(st.schema)
  /\ env.easConfig
  /\ IsSome(st.schemaRecord) /\ Get(st.schemaRecord).revocable

\* The precondition check of createAttestations (lines 275-287).
directPreconditionsMet(st) ==
  /\ IsSome(st.schemaEncoder)
  /\ IsSome(st.schema)
  /\ env.easConfig
  /\ env.rpcSigner
  /\ IsSome(st.schemaRecord) /\ Get(st.schemaRecord).revocable

\* setState of lines 160-165.
safeCreating(st) ==
  [st EXCEPT !.safeTransactionState = Some(SafeState("creating", None, None, None))]

\* Mutant: the update after the hash already claims the proposal was created.
safeSigning_SkipsStage(st, txHash) ==
  [st EXCEPT !.safeTransactionState =
               Some(SafeState("created", Some(txHash), None, None))]

\* setState of lines 215-221.
safeSigning(st, txHash) ==
  [st EXCEPT !.safeTransactionState =
               Some(SafeState("signing", Some(txHash), None, None))]

\* setState of lines 253-260.
safeCreated(st, txHash, signature) ==
  [st EXCEPT !.safeTransactionState =
               Some(SafeState("created", Some(txHash), Some(signature), None))]

\* Mutant: the catch block patches the previous safeTransactionState.
safeCatch_KeepsPayload(st, e) ==
  [st EXCEPT !.safeTransactionState =
     IF IsSome(@)
       THEN Some([Get(@) EXCEPT !.status = "error", !.error = Some(e)])
       ELSE Some(SafeState("error", None, None, Some(e)))]

\* setState of the catch block, lines 262-268.
safeCatch(st, e) ==
  [st EXCEPT !.safeTransactionState = Some(SafeState("error", None, None, Some(e)))]

\* setState of lines 289-292.
directCreating(st) == [st EXCEPT !.transactionStatus = "creating"]

\* Mutant: the update before multiAttest already waits for the uids.
directAttesting_SkipsStage(st) == [st EXCEPT !.transactionStatus = "wait_uid"]

\* setState of lines 310-313.
directAttesting(st) == [st EXCEPT !.transactionStatus = "attesting"]

\* setState of lines 329-333.
directWaitUid(st, transaction) ==
  [st EXCEPT !.transactionStatus = "wait_uid", !.transaction = Some(transaction)]

\* setState of lines 340-344.
directSuccess(st, uid) ==
  [st EXCEPT !.transactionStatus = "success", !.attestationUids = Some(uid)]

\* Mutant: the direct catch block also unsets safeTransactionState.
directCatch_UnsetsSafeState(st, e) ==
  [st EXCEPT !.transactionStatus = "error",
             !.transactionError = Some(e),
             !.safeTransactionState = None]

\* setState of the catch block, lines 346-350.
directCatch(st, e) ==
  [st EXCEPT !.transactionStatus = "error", !.transactionError = Some(e)]

Error(name, i) == [name |-> name, by |-> i]

\* The invocation after it threw.
Thrown(c, name) == [c EXCEPT !.pc = "done", !.threw = name]

\* The invocation after it called an external operation it now awaits.
Awaiting(c, op) == [c EXCEPT !.pc = op, !.ext = Append(@, op)]

\* The first included row at or after row k, 0 when there is none (lines 173-176).
RECURSIVE NextIncluded(_, _, _)
NextIncluded(rows, schema, k) ==
  IF k > Len(rows) THEN 0
  ELSE IF shouldIncludeRow(rows[k], schema) THEN k
  ELSE NextIncluded(rows, schema, k + 1)

\* The loop of lines 173-192 from row k up to its next await: it skips the
\* rows not included, encodes the next included row and awaits its recipient;
\* after the last row it builds txData and awaits safe.createTransaction
\* (lines 194-210). encodeRow throwing leaves the loop for the catch block.
SafeLoopFrom(c, k) ==
  LET j == NextIncluded(csv, Get(c.schema), k)
  IN IF j = 0
       THEN Awaiting([c EXCEPT !.request =
                                 Some([schema |-> c.propSchemaUid,
                                       data |-> c.requestData])],
                     "createTransaction")
       ELSE IF EncodeRowThrows(csv[j], Get(c.schema), Get(c.schemaEncoder))
         THEN Thrown(c, "RowEncodingError")
         ELSE Awaiting([c EXCEPT !.row = j,
                                 !.encodedData =
                                   Some(encodeRow(csv[j], Get(c.schema),
                                                  Get(c.schemaEncoder)))],
                       "processRecipient")

\* Mutant: with a reference UID column the recipient is taken from the cell
\* before the last one.
SafeRowData_RecipientBeforeLast(c) ==
  LET row == csv[c.row]
  IN [recipient |-> processRecipient(row[IF c.includeRefUid THEN Len(row) - 1
                                                            ELSE Len(row)]),
      expirationTime |-> 0,
      revocable |-> Get(c.schemaRecord).revocable,
      refUID |-> IF c.includeRefUid THEN row[Len(row) - 1] ELSE ZeroUid,
      data |-> Get(c.encodedData),
      value |-> 0]

\* The data object of lines 180-189, once processRecipient has resolved.
SafeRowData(c) ==
  LET row == csv[c.row]
  IN [recipient |-> processRecipient(row[Len(row)]),
      expirationTime |-> 0,
      revocable |-> Get(c.schemaRecord).revocable,
      refUID |-> IF c.includeRefUid THEN row[Len(row) - 1] ELSE ZeroUid,
      data |-> Get(c.encodedData),
      value |-> 0]

\* The state after a continuation of a Safe invocation: the catch block's
\* setState when it threw.
SafeAfter(st, c, i) ==
  IF c.threw # "" THEN safeCatch(st, Error(c.threw, i)) ELSE st

\* A user invokes createSafeAttestationsTransaction: lines 143-181, up to
\* the first await (or to the catch block).
createSafeAttestationsTransaction ==
  /\ nEvents < MaxEvents
  /\ nEvents' = nEvents + 1
  /\ LET i == Len(inv) + 1
         c == IF safePreconditionsMet(state)
                THEN SafeLoopFrom(NewCall("safe"), 1)
                ELSE Thrown(NewCall("safe"), "PreconditionError")
     IN /\ inv' = Append(inv, c)
        /\ state' = IF safePreconditionsMet(state)
                      THEN SafeAfter(safeCreating(state), c, i)
                      ELSE safeCatch(state, Error("PreconditionError", i))
  /\ UNCHANGED <<schemaUid, includeRefUid, csv, env, fetches>>

\* processRecipient settles for the row of invocation i (lines 181-192).
SafeRecipientSettled(i) ==
  /\ i \in Calls /\ inv[i].mode = "safe" /\ inv[i].pc = "processRecipient"
  /\ LET c == inv[i]
         row == csv[c.row]
         c2 == IF ProcessRecipientThrows(row[Len(row)])
                 THEN Thrown(c, "RecipientResolutionError")
                 ELSE SafeLoopFrom([c EXCEPT !.requestData =
                                               Append(@, SafeRowData(c))],
                                   c.row + 1)
     IN /\ inv' = [inv EXCEPT ![i] = c2]
        /\ state' = SafeAfter(state, c2, i)
  /\ UNCHANGED <<schemaUid, includeRefUid, csv, env, fetches, nEvents>>

\* An awaited call of invocation i rejects (a network, signer or contract
\* failure): the catch block runs.
SafeRejected(i) ==
  /\ i \in Calls /\ inv[i].mode = "safe"
  /\ inv[i].pc \in {"createTransaction", "getAddress", "getTransactionHash",
                    "signTransaction", "proposeTransaction"}
  /\ LET c2 == Thrown(inv[i], "SubmissionError")
     IN /\ inv' = [inv EXCEPT ![i] = c2]
        /\ state' = SafeAfter(state, c2, i)
  /\ UNCHANGED <<schemaUid, includeRefUid, csv, env, fetches, nEvents>>

\* safe.createTransaction resolved (line 208): rpcSigner.getAddress is awaited.
SafeTransactionCreated(i) ==
  /\ i \in Calls /\ inv[i].mode = "safe" /\ inv[i].pc = "createTransaction"
  /\ inv' = [inv EXCEPT ![i] = Awaiting(@, "getAddress")]
  /\ UNCHANGED <<state, schemaUid, includeRefUid, csv, env, fetches, nEvents>>

\* getAddress resolved (line 212): safe.getTransactionHash is awaited.
SafeAddressResolved(i) ==
  /\ i \in Calls /\ inv[i].mode = "safe" /\ inv[i].pc = "getAddress"
  /\ inv' = [inv EXCEPT ![i] = Awaiting(@, "getTransactionHash")]
  /\ UNCHANGED <<state, schemaUid, includeRefUid, csv, env, fetches, nEvents>>

\* Mutant: the hash continuation proposes the transaction without signing it.
SafeHashComputed_SkipsSigning(i) ==
  /\ i \in Calls /\ inv[i].mode = "safe" /\ inv[i].pc = "getTransactionHash"
  /\ LET txHash == [of |-> i]
     IN /\ inv' = [inv EXCEPT ![i] = Awaiting([@ EXCEPT !.txHash = Some(txHash)],
                                              "proposeTransaction")]
        /\ state' = safeSigning(state, txHash)
  /\ UNCHANGED <<schemaUid, includeRefUid, csv, env, fetches, nEvents>>

\* getTransactionHash resolved (lines 213-223): status signing, and
\* safe.signTransaction is awaited.
SafeHashComputed(i) ==
  /\ i \in Calls /\ inv[i].mode = "safe" /\ inv[i].pc = "getTransactionHash"
  /\ LET txHash == [of |-> i]
     IN /\ inv' = [inv EXCEPT ![i] = Awaiting([@ EXCEPT !.txHash = Some(txHash)],
                                              "signTransaction")]
        /\ state' = safeSigning(state, txHash)
  /\ UNCHANGED <<schemaUid, includeRefUid, csv, env, fetches, nEvents>>

\* signTransaction resolved (lines 223-237): without a signature of the
\* signer it throws, otherwise safeApiKit.proposeTransaction is awaited.
SafeSigned(i, signed) ==
  /\ i \in Calls /\ inv[i].mode = "safe" /\ inv[i].pc = "signTransaction"
  /\ LET c2 == IF signed THEN Awaiting(inv[i], "proposeTransaction")
                         ELSE Thrown(inv[i], "SigningFailed")
     IN /\ inv' = [inv EXCEPT ![i] = c2]
        /\ state' = SafeAfter(state, c2, i)
  /\ UNCHANGED <<schemaUid, includeRefUid, csv, env, fetches, nEvents>>

\* The analytics event of lines 244-251.
SafeEvent(c) ==
  [chain |-> "chain", wallet |-> "safe", schema |-> c.propSchemaUid,
   attestationCount |-> Len(c.requestData)]

\* proposeTransaction resolved (lines 231-260): the analytics event is
\* emitted (plausible.trackEvent may throw) and the status becomes created.
SafeProposed(i, tracked) ==
  /\ i \in Calls /\ inv[i].mode = "safe" /\ inv[i].pc = "proposeTransaction"
  /\ LET c == inv[i]
         c2 == IF tracked THEN [c EXCEPT !.pc = "done", !.event = Some(SafeEvent(c))]
                          ELSE Thrown(c, "AnalyticsError")
     IN /\ inv' = [inv EXCEPT ![i] = c2]
        /\ state' = IF tracked
                      THEN safeCreated(state, Get(c.txHash), [of |-> i])
                      ELSE SafeAfter(state, c2, i)
  /\ UNCHANGED <<schemaUid, includeRefUid, csv, env, fetches, nEvents>>

\* The state after a continuation of a direct invocation: the catch block's
\* setState when it threw.
DirectAfter(st, c, i) ==
  IF c.threw # "" THEN directCatch(st, Error(c.threw, i)) ELSE st

\* A user invokes createAttestations: lines 273-301, up to the first await
\* (or to the catch block).
createAttestations ==
  /\ nEvents < MaxEvents
  /\ nEvents' = nEvents + 1
  /\ LET i == Len(inv) + 1
         c == IF directPreconditionsMet(state)
                THEN Awaiting(NewCall("direct"), "createMultiAttestRequest")
                ELSE Thrown(NewCall("direct"), "PreconditionError")
     IN /\ inv' = Append(inv, c)
        /\ state' = IF directPreconditionsMet(state)
                      THEN directCreating(state)
                      ELSE DirectAfter(state, c, i)
  /\ UNCHANGED <<schemaUid, includeRefUid, csv, env, fetches>>

\* An awaited call of invocation i rejects: the catch block runs.
DirectRejected(i) ==
  /\ i \in Calls /\ inv[i].mode = "direct"
  /\ inv[i].pc \in {"createMultiAttestRequest", "multiAttest", "wait"}
  /\ LET c2 == Thrown(inv[i], "SubmissionError")
     IN /\ inv' = [inv EXCEPT ![i] = c2]
        /\ state' = DirectAfter(state, c2, i)
  /\ UNCHANGED <<schemaUid, includeRefUid, csv, env, fetches, nEvents>>

\* createMultiAttestRequest resolved (lines 294-315): status attesting, and
\* eas.multiAttest is awaited.
DirectRequestBuilt(i) ==
  /\ i \in Calls /\ inv[i].mode = "direct" /\ inv[i].pc = "createMultiAttestRequest"
  /\ LET c == inv[i]
         request == createMultiAttestRequest(csv, c.stateSchemaUid, Get(c.schema),
                                             Get(c.schemaEncoder),
                                             Get(c.schemaRecord).revocable)
     IN inv' = [inv EXCEPT ![i] = Awaiting([c EXCEPT !.request = Some(request),
                                                     !.requestData = request.data],
                                           "multiAttest")]
  /\ state' = directAttesting(state)
  /\ UNCHANGED <<schemaUid, includeRefUid, csv, env, fetches, nEvents>>

\* The analytics event of lines 317-324.
DirectEvent(c) ==
  [chain |-> "chain", wallet |-> "safe", schema |-> c.propSchemaUid,
   attestationCount |-> Len(Get(c.request).data)]

\* multiAttest resolved (lines 315-335): the analytics event is emitted
\* (plausible.trackEvent may throw), status wait_uid with the transaction,
\* and transaction.wait is awaited.
DirectMultiAttested(i, tracked) ==
  /\ i \in Calls /\ inv[i].mode = "direct" /\ inv[i].pc = "multiAttest"
  /\ LET c == inv[i]
         c2 == IF tracked
                 THEN Awaiting([c EXCEPT !.event = Some(DirectEvent(c))], "wait")
                 ELSE Thrown(c, "AnalyticsError")
     IN /\ inv' = [inv EXCEPT ![i] = c2]
        /\ state' = IF tracked
                      THEN directWaitUid(state, [of |-> i])
                      ELSE DirectAfter(state, c2, i)
  /\ UNCHANGED <<schemaUid, includeRefUid, csv, env, fetches, nEvents>>

\* transaction.wait resolved (lines 335-344): status success with the uids.
DirectWaited(i) ==
  /\ i \in Calls /\ inv[i].mode = "direct" /\ inv[i].pc = "wait"
  /\ inv' = [inv EXCEPT ![i].pc = "done"]
  /\ state' = directSuccess(state, [of |-> i])
  /\ UNCHANGED <<schemaUid, includeRefUid, csv, env, fetches, nEvents>>

\* Mutant: reset forgets the attestation uids.
resetTransactionsState_KeepsUids(st) ==
  [st EXCEPT !.safeTransactionState = None,
             !.transaction = None,
             !.transactionError = None,
             !.transactionStatus = "undefined"]

\* resetTransactions (lines 355-364).
resetTransactionsState(st) ==
  [st EXCEPT !.safeTransactionState = None,
             !.transaction = None,
             !.transactionError = None,
             !.transactionStatus = "undefined",
             !.attestationUids = None]

\* Mutant: reset also abandons the invocations in flight.
resetTransactions_Cancels ==
  /\ nEvents < MaxEvents
  /\ nEvents' = nEvents + 1
  /\ state' = resetTransactionsState(state)
  /\ inv' = [i \in DOMAIN inv |-> [inv[i] EXCEPT !.pc = "done"]]
  /\ UNCHANGED <<schemaUid, includeRefUid, csv, env, fetches>>

resetTransactions ==
  /\ nEvents < MaxEvents
  /\ nEvents' = nEvents + 1
  /\ state' = resetTransactionsState(state)
  /\ UNCHANGED <<schemaUid, includeRefUid, csv, env, fetches, inv>>

\* ------------------------------------------------------- specifications

Ids == 1..(MaxEvents + 1)

\* The continuations of the invocations in flight.
Continue ==
  \/ \E i \in Ids : SafeRecipientSettled(i)
  \/ \E i \in Ids : SafeRejected(i)
  \/ \E i \in Ids : SafeTransactionCreated(i)
  \/ \E i \in Ids : SafeAddressResolved(i)
  \/ \E i \in Ids : SafeHashComputed(i)
  \/ \E i \in Ids, signed \in BOOLEAN : SafeSigned(i, signed)
  \/ \E i \in Ids, tracked \in BOOLEAN : SafeProposed(i, tracked)
  \/ \E i \in Ids : DirectRejected(i)
  \/ \E i \in Ids : DirectRequestBuilt(i)
  \/ \E i \in Ids, tracked \in BOOLEAN : DirectMultiAttested(i, tracked)
  \/ \E i \in Ids : DirectWaited(i)

\* The provider as the code allows it to be driven: the handlers may be
\* invoked, and reset, at any time.
Next ==
  \/ SchemaNext
  \/ createSafeAttestationsTransaction
  \/ createAttestations
  \/ Continue
  \/ resetTransactions

Spec == Init /\ [][Next]_vars

\* The provider driven one submission at a time: a handler is invoked, and
\* reset, only while no invocation is in flight.
InvokeWhenIdle ==
  /\ Idle
  /\ (createSafeAttestationsTransaction \/ createAttestations)

ResetWhenIdle == Idle /\ resetTransactions

SeqNext ==
  \/ SchemaNext
  \/ InvokeWhenIdle
  \/ Continue
  \/ ResetWhenIdle

SeqSpec == Init /\ [][SeqNext]_vars

\* ------------------------------------------------------------- claims

\* The status tag of safeTransactionState ("undefined" when it is unset).
SafeStatus(st) ==
  IF IsSome(st.safeTransactionState)
    THEN Get(st.safeTransactionState).status
    ELSE "undefined"

\* This step is the invocation of a handler of the mode.
Invoked(mode) ==
  /\ Len(inv') = Len(inv) + 1
  /\ inv'[Len(inv')].mode = mode

\* This step is a continuation of an invocation of the mode.
Continued(mode) ==
  /\ Len(inv') = Len(inv)
  /\ \E i \in Calls : inv[i].mode = mode /\ inv'[i] # inv[i]

\* The invocation this step started.
Started == inv'[Len(inv')]

DirectChain ==
  {<<"creating", "attesting">>, <<"attesting", "wait_uid">>, <<"wait_uid", "success">>}

SafeChain == {<<"creating", "signing">>, <<"signing", "created">>}

\* C1 as stated: in a run of one submission at a time, transactionStatus
\* changes only by an invocation entering creating, along creating ->
\* attesting -> wait_uid -> success, to error from one of those stages, or
\* (by reset) to unset.
C1_StatusChainOnly ==
  [][state'.transactionStatus # state.transactionStatus =>
       \/ Invoked("direct") /\ state'.transactionStatus = "creating"
       \/ Continued("direct")
            /\ <<state.transactionStatus, state'.transactionStatus>> \in DirectChain
       \/ /\ state.transactionStatus \in {"creating", "attesting", "wait_uid", "success"}
          /\ state'.transactionStatus = "error"
       \/ inv' = inv /\ state'.transactionStatus = "undefined"]_vars

\* C1 amended: as C1, with error entered from a stage in flight when a step
\* of the invocation fails, or directly from the status the invocation found
\* (unset, success or error) when its precondition check fails: that
\* invocation never enters creating and makes no external call.
C1_StatusChainOrPreconditionError ==
  [][state'.transactionStatus # state.transactionStatus =>
       \/ Invoked("direct") /\ state'.transactionStatus = "creating"
            /\ Started.threw = ""
       \/ Continued("direct")
            /\ <<state.transactionStatus, state'.transactionStatus>> \in DirectChain
       \/ /\ Continued("direct")
          /\ state.transactionStatus \in {"creating", "attesting", "wait_uid"}
          /\ state'.transactionStatus = "error"
       \/ /\ Invoked("direct")
          /\ Started.threw = "PreconditionError" /\ Started.ext = <<>>
          /\ state.transactionStatus \in {"undefined", "success", "error"}
          /\ state'.transactionStatus = "error"
       \/ inv' = inv /\ state'.transactionStatus = "undefined"]_vars

\* A direct submission has gone through every stage to success.
C1_Witness ==
  /\ state.transactionStatus = "success"
  /\ \E i \in Calls :
       /\ inv[i].mode = "direct" /\ inv[i].pc = "done" /\ inv[i].threw = ""
       /\ inv[i].ext = <<"createMultiAttestRequest", "multiAttest", "wait">>

\* C2 as stated: in a run of one submission at a time, the status of
\* safeTransactionState changes only by an invocation entering creating, along
\* creating -> signing -> created, to error from one of those stages, or (by
\* reset) to unset.
C2_SafeStatusChainOnly ==
  [][SafeStatus(state') # SafeStatus(state) =>
       \/ Invoked("safe") /\ SafeStatus(state') = "creating"
       \/ Continued("safe") /\ <<SafeStatus(state), SafeStatus(state')>> \in SafeChain
       \/ /\ SafeStatus(state) \in {"creating", "signing", "created"}
          /\ SafeStatus(state') = "error"
       \/ inv' = inv /\ SafeStatus(state') = "undefined"]_vars

\* C2 amended: as C2, with error entered from a stage in flight when a step
\* of the invocation fails, or directly from the status the invocation found
\* (unset, created or error) when the invocation throws before its first
\* await: its precondition check fails, or its first included row does not
\* encode (the creating and the error update are one commit).
C2_SafeStatusChainOrEarlyError ==
  [][SafeStatus(state') # SafeStatus(state) =>
       \/ Invoked("safe") /\ SafeStatus(state') = "creating" /\ Started.threw = ""
       \/ Continued("safe") /\ <<SafeStatus(state), SafeStatus(state')>> \in SafeChain
       \/ /\ Continued("safe")
          /\ SafeStatus(state) \in {"creating", "signing"}
          /\ SafeStatus(state') = "error"
       \/ /\ Invoked("safe")
          /\ Started.threw \in {"PreconditionError", "RowEncodingError"}
          /\ Started.ext = <<>>
          /\ SafeStatus(state) \in {"undefined", "created", "error"}
          /\ SafeStatus(state') = "error"
       \/ inv' = inv /\ SafeStatus(state') = "undefined"]_vars

\* A Safe submission has gone through every stage to created.
C2_Witness ==
  /\ SafeStatus(state) = "created"
  /\ \E i \in Calls :
       /\ inv[i].mode = "safe" /\ inv[i].pc = "done" /\ inv[i].threw = ""
       /\ inv[i].ext[Len(inv[i].ext)] = "proposeTransaction"

\* The preconditions of the multisig-proposal mode as the specification lists
\* them: multisig context, signer, schema encoder, resolved schema, and a
\* schema record whose revocable flag is known.
SafePreconditionsListed(st) ==
  /\ env.safe
  /\ env.rpcSigner
  /\ IsSome(st.schemaEncoder)
  /\ IsSome(st.schema)
  /\ IsSome(st.schemaRecord)

\* C3 as stated: an invocation of createSafeAttestationsTransaction with a
\* precondition unmet throws the precondition error, makes no external call
\* and leaves safeTransactionState as it was.
C3_PreconditionLeavesState ==
  [][(Invoked("safe") /\ ~SafePreconditionsListed(state)) =>
       /\ Started.threw = "PreconditionError"
       /\ Started.ext = <<>>
       /\ state'.safeTransactionState = state.safeTransactionState]_vars

\* C3 amended: such an invocation throws the precondition error, makes no
\* external call and never enters creating; the catch block records the
\* error: safeTransactionState becomes {status: error, error} with no txHash
\* and no signature, and no other field of the state changes.
C3_PreconditionErrorRecorded ==
  [][(Invoked("safe") /\ ~SafePreconditionsListed(state)) =>
       /\ Started.threw = "PreconditionError"
       /\ Started.ext = <<>>
       /\ Started.pc = "done"
       /\ state' = [state EXCEPT !.safeTransactionState =
                      Some(SafeState("error", None, None,
                                     Some(Error("PreconditionError", Len(inv')))))]]_vars

\* A Safe invocation without the multisig context, with everything else there, has ended.
C3_Witness ==
  /\ ~env.safe
  /\ IsSome(state.schemaEncoder) /\ IsSome(state.schema) /\ IsSome(state.schemaRecord)
  /\ \E i \in Calls : inv[i].mode = "safe" /\ inv[i].threw = "PreconditionError"
  /\ SafeStatus(state) = "error"

\* C4 as stated: an invocation with a loaded schema record whose revocable
\* flag is false, and every other precondition met, passes the precondition
\* check (it does not throw the precondition error).
C4_NonRevocablePasses ==
  [][((Invoked("direct") \/ Invoked("safe"))
        /\ env.rpcSigner /\ env.safe /\ env.easConfig
        /\ IsSome(state.schemaEncoder) /\ IsSome(state.schema)
        /\ IsSome(state.schemaRecord) /\ ~Get(state.schemaRecord).revocable) =>
       Started.threw # "PreconditionError"]_vars

\* The terminal states of section 5: nothing in flight, and a submission has
\* ended in success, created or error.
TerminalState ==
  /\ Idle
  /\ \/ state.transactionStatus \in {"success", "error"}
     \/ SafeStatus(state) \in {"created", "error"}

\* C5: resetTransactions in a terminal state unsets safeTransactionState,
\* transaction, transactionError, transactionStatus and attestationUids, and
\* leaves schemaUid, schemaRecord, schema, schemaEncoder and the schema
\* error and loading fields as they were.
C5_ResetClearsTransactionFields ==
  [][(TerminalState /\ resetTransactions) =>
       /\ state'.safeTransactionState = None
       /\ state'.transaction = None
       /\ state'.transactionError = None
       /\ state'.transactionStatus = "undefined"
       /\ state'.attestationUids = None
       /\ state'.schemaUid = state.schemaUid
       /\ state'.schemaRecord = state.schemaRecord
       /\ state'.schema = state.schema
       /\ state'.schemaEncoder = state.schemaEncoder
       /\ state'.schemaError = state.schemaError
       /\ state'.schemaEncoderError = state.schemaEncoderError
       /\ state'.schemaRecordError = state.schemaRecordError
       /\ state'.schemaRecordIsLoading = state.schemaRecordIsLoading]_vars

\* Reset has run after a direct submission that succeeded: its transaction
\* fields are unset again while the schema, the encoder and the record stay.
C5_Witness ==
  /\ Idle
  /\ \E i \in Calls : inv[i].mode = "direct" /\ inv[i].threw = ""
  /\ state.transactionStatus = "undefined"
  /\ state.transaction = None /\ state.attestationUids = None
  /\ state.transactionError = None /\ state.safeTransactionState = None
  /\ IsSome(state.schema) /\ IsSome(state.schemaEncoder) /\ IsSome(state.schemaRecord)

\* C6 as stated: once the submission call (multiAttest, proposeTransaction)
\* has resolved, the invocation reaches the next status (wait_uid, created)
\* whether or not the analytics emission fails.
C6_AnalyticsFailureHarmless ==
  [][\A i \in Calls :
       /\ (inv[i].pc = "multiAttest" /\ inv'[i].pc # "multiAttest"
             /\ inv'[i].threw # "SubmissionError")
            => state'.transactionStatus = "wait_uid"
       /\ (inv[i].pc = "proposeTransaction" /\ inv'[i].pc # "proposeTransaction"
             /\ inv'[i].threw # "SubmissionError")
            => SafeStatus(state') = "created"]_vars

\* C7 as stated: no Safe invocation ends because one row failed to encode or
\* its recipient failed to resolve.
C7_RowFailureIsFailSoft ==
  \A i \in Calls :
    inv[i].mode = "safe" =>
      inv[i].threw \notin {"RowEncodingError", "RecipientResolutionError"}

\* C8 as stated: an invocation made while the encoder of the current schema
\* record cannot be constructed ends in the precondition error, with no row
\* encoded and no external call.
C8_NoSubmissionWithoutEncoder ==
  \A i \in Calls :
    (IsSome(inv[i].schemaRecord)
       /\ SchemaEncoderThrows(Get(inv[i].schemaRecord).schema)) =>
      /\ inv[i].threw = "PreconditionError"
      /\ inv[i].ext = <<>>

\* C9 as stated: while the status is creating, no payload of an earlier
\* attempt is present.
C9_CreatingCarriesNoPayload ==
  /\ state.transactionStatus = "creating" =>
       /\ state.transaction = None
       /\ state.transactionError = None
       /\ state.attestationUids = None
  /\ SafeStatus(state) = "creating" =>
       /\ Get(state.safeTransactionState).txHash = None
       /\ Get(state.safeTransactionState).signature = None
       /\ Get(state.safeTransactionState).error = None

\* C10 as stated: at most one submission is in flight.
C10_OneSubmissionInFlight ==
  Cardinality({i \in Calls : InFlight(i)}) <= 1

\* The positions of the parsed fields whose type is recognized.
ValidPositions(parsed) ==
  {k \in 1..Len(parsed) : parsed[k].type \in SchemaFieldTypeNames}

\* The position of the j-th field with a recognized type.
NthValid(positions, j) ==
  CHOOSE k \in positions : Cardinality({m \in positions : m <= k}) = j

\* C11: while a schema record is loaded, the field list in the state is the
\* record's fields of recognized type in declaration order, then {refUID,
\* bytes32} exactly when includeRefUid is on, then {recipient, address} last;
\* its length is (fields of recognized type) + (1 if includeRefUid) + 1.
C11_FieldListShape ==
  IsSome(state.schemaRecord) =>
    /\ IsSome(state.schema)
    /\ LET parsed == ParsedFields(Get(state.schemaRecord).schema)
           positions == ValidPositions(parsed)
           fl == Get(state.schema)
           n == Cardinality(positions)
       IN /\ Len(fl) = n + (IF includeRefUid THEN 1 ELSE 0) + 1
          /\ fl[Len(fl)] = [name |-> "recipient", type |-> "address"]
          /\ IF includeRefUid
               THEN fl[Len(fl) - 1] = [name |-> "refUID", type |-> "bytes32"]
               ELSE \A j \in 1..Len(fl) : fl[j].name = "refUID" => j <= n
          /\ \A j \in 1..n :
               /\ fl[j].type = parsed[NthValid(positions, j)].type
               /\ fl[j].name = parsed[NthValid(positions, j)].name

\* The record with the unrecognized type is loaded in refUID mode: its one
\* recognized field, then refUID, then recipient.
C11_Witness ==
  /\ IsSome(state.schemaRecord) /\ Get(state.schemaRecord).uid = "uC"
  /\ includeRefUid
  /\ IsSome(state.schema) /\ Len(Get(state.schema)) = 3
  /\ IsSome(state.schemaError)

\* This step is the continuation of Safe invocation i whose awaited
\* processRecipient resolved: a data object was pushed.
RowPushed(i) ==
  /\ inv[i].mode = "safe" /\ inv[i].pc = "processRecipient"
  /\ Len(inv'[i].requestData) = Len(inv[i].requestData) + 1

\* The data object this step pushed, and the row it was built from.
Pushed(i) == inv'[i].requestData[Len(inv'[i].requestData)]
PushedRow(i) == csv[inv[i].row]

\* C12 as stated: the recipient of each pushed data object is resolved from
\* the row's last cell without a reference UID column and from its
\* second-to-last cell with one.
C12_RecipientBeforeRefUid ==
  [][\A i \in Calls :
       RowPushed(i) =>
         Pushed(i).recipient =
           processRecipient(PushedRow(i)[IF inv[i].includeRefUid
                                           THEN Len(PushedRow(i)) - 1
                                           ELSE Len(PushedRow(i))])]_vars

\* C12 amended: the recipient is resolved from the row's last cell in both
\* cases; with a reference UID column the second-to-last cell is the refUID
\* of the data object, without one the refUID is the zero hash.
C12_RecipientIsLastCell ==
  [][\A i \in Calls :
       RowPushed(i) =>
         /\ Pushed(i).recipient = processRecipient(PushedRow(i)[Len(PushedRow(i))])
         /\ Pushed(i).refUID =
              IF inv[i].includeRefUid
                THEN PushedRow(i)[Len(PushedRow(i)) - 1]
                ELSE ZeroUid]_vars

\* A Safe invocation in refUID mode has pushed the data object of a row with
\* a reference UID column.
C12_Witness ==
  \E i \in Calls :
    /\ inv[i].mode = "safe" /\ inv[i].includeRefUid
    /\ Len(inv[i].requestData) >= 1
    /\ inv[i].requestData[1].refUID = "0xref"
    /\ inv[i].requestData[1].recipient = "0xB"

\* This step is the continuation of invocation i in which an awaited external
\* call failed.
ExternalStepFailed(i) ==
  /\ InFlight(i)
  /\ inv'[i].threw # ""

\* The status and the error payload of a mode in a state.
StatusOf(mode, st) ==
  IF mode = "safe" THEN SafeStatus(st) ELSE st.transactionStatus

ErrorOf(mode, st) ==
  IF mode = "safe"
    THEN (IF IsSome(st.safeTransactionState)
            THEN Get(st.safeTransactionState).error
            ELSE None)
    ELSE st.transactionError

\* C13: when an awaited external call of an invocation fails, the invocation
\* ends without a further external call and its mode's status becomes error
\* with the cause as payload; an ended invocation never runs again; and a
\* status of error stays error in every step that is neither an invocation
\* of a submission nor a reset.
C13_FailureEndsInStickyError ==
  [][/\ \A i \in Calls :
          ExternalStepFailed(i) =>
            /\ inv'[i].pc = "done"
            /\ inv'[i].ext = inv[i].ext
            /\ StatusOf(inv[i].mode, state') = "error"
            /\ ErrorOf(inv[i].mode, state') = Some(Error(inv'[i].threw, i))
     /\ \A i \in Calls : ~InFlight(i) => inv'[i] = inv[i]
     /\ \A mode \in {"direct", "safe"} :
          (/\ StatusOf(mode, state) = "error"
           /\ Len(inv') = Len(inv)
           /\ ~resetTransactions)
            => StatusOf(mode, state') = "error"]_vars

\* C14: the analytics event of an invocation records the mode that ran: a
\* direct invocation's event is not tagged as the Safe wallet, a Safe
\* invocation's event is; both carry the chain, the schema identifier and
\* the number of attestations requested.
C14_EventRecordsMode ==
  \A i \in Calls :
    IsSome(inv[i].event) =>
      /\ (Get(inv[i].event).wallet = "safe") <=> (inv[i].mode = "safe")
      /\ Get(inv[i].event).chain = "chain"
      /\ Get(inv[i].event).schema = inv[i].propSchemaUid
      /\ Get(inv[i].event).attestationCount =
           (IF inv[i].mode = "safe" THEN Len(inv[i].requestData)
                                    ELSE Len(Get(inv[i].request).data))

\* Every transaction field of the state is unset.
TransactionFieldsUnset(st) ==
  /\ st.safeTransactionState = None
  /\ st.transaction = None
  /\ st.transactionError = None
  /\ st.transactionStatus = "undefined"
  /\ st.attestationUids = None

\* This step is a continuation of invocation i.
ContinuedBy(i) == InFlight(i) /\ inv'[i] # inv[i]

\* C15: resetTransactions does not cancel. A reset leaves every invocation
\* where it was, with its pending external call still awaited; whatever the
\* status a reset left behind, the continuation of an invocation in flight
\* issues its next external call or ends the invocation, and the step that
\* ends it writes the final status of its mode. After the transaction fields are unset with nothing in
\* flight they stay unset in every step that does not invoke a submission.
C15_ResetDoesNotCancel ==
  [][/\ resetTransactions => inv' = inv
     /\ \A i \in Calls :
          ContinuedBy(i) =>
            /\ \/ inv'[i].pc = "done"
               \/ inv'[i].ext = Append(inv[i].ext, inv'[i].pc)
            /\ inv'[i].pc = "done" =>
                 StatusOf(inv[i].mode, state') \in {"success", "created", "error"}
     /\ (Idle /\ TransactionFieldsUnset(state) /\ Len(inv') = Len(inv))
          => TransactionFieldsUnset(state')]_vars

\* A direct submission ran to success although reset was invoked while
\* transaction.wait was awaited: the transaction that the wait_uid update
\* stored is gone, the uids written afterwards are there.
C15_Witness ==
  /\ Len(inv) = 1 /\ inv[1].mode = "direct"
  /\ inv[1].pc = "done" /\ inv[1].threw = ""
  /\ inv[1].ext = <<"createMultiAttestRequest", "multiAttest", "wait">>
  /\ state.transactionStatus = "success"
  /\ state.transaction = None
  /\ IsSome(state.attestationUids)

\* The external calls of a Safe invocation after its recipient loop.
SafeSteps ==
  <<"createTransaction", "getAddress", "getTransactionHash",
    "signTransaction", "proposeTransaction">>

NotRecipientCall(op) == op # "processRecipient"

\* C16: the calls a Safe invocation has made after its recipient loop are an
\* initial part of createTransaction, getAddress, getTransactionHash,
\* signTransaction, proposeTransaction, each at most once; an invocation
\* that found no signature made no proposeTransaction call; and while the
\* status is created, the invocation that set it has ended without throwing
\* and proposeTransaction was its last call.
C16_SafeStepsInOrder ==
  /\ \A i \in Calls :
       inv[i].mode = "safe" =>
         LET made == SelectSeq(inv[i].ext, NotRecipientCall)
         IN /\ Len(made) <= Len(SafeSteps)
            /\ made = SubSeq(SafeSteps, 1, Len(made))
            /\ inv[i].threw = "SigningFailed" =>
                 made = SubSeq(SafeSteps, 1, 4)
  /\ SafeStatus(state) = "created" =>
       \E i \in Calls :
         /\ Get(state.safeTransactionState).signature = Some([of |-> i])
         /\ inv[i].mode = "safe" /\ inv[i].pc = "done" /\ inv[i].threw = ""
         /\ inv[i].ext # <<>>
         /\ inv[i].ext[Len(inv[i].ext)] = "proposeTransaction"

\* A Safe submission was proposed and the status is created.
C16_Witness ==
  /\ SafeStatus(state) = "created"
  /\ \E i \in Calls :
       /\ inv[i].mode = "safe" /\ inv[i].pc = "done" /\ inv[i].threw = ""
       /\ Len(inv[i].requestData) >= 1

\* C17: in every state the status tag of safeTransactionState determines
\* its payload: creating has no txHash, signature or error; signing has a
\* txHash only; created has a txHash and a signature and no error; error has
\* an error and neither txHash nor signature.
C17_SafeStatusDeterminesPayload ==
  IsSome(state.safeTransactionState) =>
    LET s == Get(state.safeTransactionState)
    IN /\ s.status \in {"creating", "signing", "created", "error"}
       /\ s.status = "creating" =>
            ~IsSome(s.txHash) /\ ~IsSome(s.signature) /\ ~IsSome(s.error)
       /\ s.status = "signing" =>
            IsSome(s.txHash) /\ ~IsSome(s.signature) /\ ~IsSome(s.error)
       /\ s.status = "created" =>
            IsSome(s.txHash) /\ IsSome(s.signature) /\ ~IsSome(s.error)
       /\ s.status = "error" =>
            IsSome(s.error) /\ ~IsSome(s.txHash) /\ ~IsSome(s.signature)

\* The status is error after an invocation failed with its hash computed
\* and the signing status written.
C17_Witness ==
  /\ SafeStatus(state) = "error"
  /\ \E i \in Calls :
       /\ inv[i].mode = "safe" /\ IsSome(inv[i].txHash)
       /\ inv[i].threw # ""
       /\ Get(state.safeTransactionState).error = Some(Error(inv[i].threw, i))

\* C18: the schema identifier in the request of an invocation is the
\* identifier of the schema record the invocation took its field list,
\* encoder and revocability from.
C18_RequestNamesLoadedSchema ==
  \A i \in Calls :
    IsSome(inv[i].request) =>
      /\ IsSome(inv[i].schemaRecord)
      /\ Get(inv[i].request).schema = Get(inv[i].schemaRecord).uid

\* The fetch issued for the current schemaUid prop is still in flight: the
\* prop only changes to a different identifier, so of two consecutive
\* fetches only the later one can be for the current identifier.
CurrentFetchInFlight ==
  /\ fetches # <<>>
  /\ fetches[Len(fetches)] = schemaUid

\* C19: with a registry configured, once no fetch is in flight the state
\* holds the outcome of the fetch for the current schemaUid prop (its record,
\* or no record and its failure) and schemaRecordIsLoading is false; and
\* schemaRecordIsLoading is true while the fetch for the current identifier
\* is in flight.
C19_LatestFetchWins ==
  env.easConfig =>
    /\ fetches = <<>> =>
         /\ ~state.schemaRecordIsLoading
         /\ IF IsSome(state.schemaRecord)
              THEN Get(state.schemaRecord).uid = schemaUid
              ELSE /\ IsSome(state.schemaRecordError)
                   /\ Get(state.schemaRecordError).uid = schemaUid
    /\ CurrentFetchInFlight => state.schemaRecordIsLoading

\* The schema fields of the state are the same after this step.
SchemaFieldsKept ==
  /\ state'.schemaUid = state.schemaUid
  /\ state'.schemaRecord = state.schemaRecord
  /\ state'.schemaRecordIsLoading = state.schemaRecordIsLoading
  /\ state'.schemaRecordError = state.schemaRecordError
  /\ state'.schemaError = state.schemaError
  /\ state'.schema = state.schema
  /\ state'.schemaEncoder = state.schemaEncoder
  /\ state'.schemaEncoderError = state.schemaEncoderError

\* C20: a step of createAttestations (its invocation or a continuation)
\* leaves safeTransactionState as it was; a step of
\* createSafeAttestationsTransaction leaves transactionStatus, transaction,
\* transactionError and attestationUids as they were; both leave the schema
\* fields as they were.
C20_ModesWriteDisjointFields ==
  [][/\ (Invoked("direct") \/ Continued("direct")) =>
          /\ state'.safeTransactionState = state.safeTransactionState
          /\ SchemaFieldsKept
     /\ (Invoked("safe") \/ Continued("safe")) =>
          /\ state'.transactionStatus = state.transactionStatus
          /\ state'.transaction = state.transaction
          /\ state'.transactionError = state.transactionError
          /\ state'.attestationUids = state.attestationUids
          /\ SchemaFieldsKept]_vars

\* A Safe submission ended in error and a direct submission invoked after
\* it failed in an external call: each mode's error is in its own fields.
C20_Witness ==
  /\ Len(inv) = 2
  /\ inv[1].mode = "safe" /\ inv[2].mode = "direct"
  /\ inv[1].pc = "done" /\ inv[2].pc = "done"
  /\ SafeStatus(state) = "error"
  /\ state.transactionStatus = "error"
  /\ inv[2].ext # <<>>

====
